---- MODULE Spec2Model ----
(***************************************************************************)
(* A model of library/xml.py: the XPath-driven ensure / set value /        *)
(* replace children / append children / remove operations on an lxml tree. *)
(*                                                                         *)
(* Strings that the code takes apart (selectors, names with a namespace    *)
(* prefix) are sequences of tokens: a token is one punctuation mark of the *)
(* dialect ("/", "@", "=", "'", "[", "]", ":", ".", " "), one of the fixed  *)
(* words "text()" and " and ", or an atom (a name or a literal value).     *)
(* Strings the code only stores and compares (tags, attribute names and    *)
(* values, text) are TLA+ strings.                                         *)
(*                                                                         *)
(* An element is [tag, text, attrib, kids]: attrib is the ordered list of  *)
(* <<name, value>> pairs (lxml keeps insertion order and serialises in     *)
(* it), kids the ordered children.  Tails (text after an element) are not  *)
(* modelled: the documents have no text between elements.  An element is   *)
(* addressed by its path, the sequence of child indexes from the root.     *)
(*                                                                         *)
(* file is the document on disk, loaded the tree as a request parsed it,   *)
(* tree the tree as the request left it; selector and split are the        *)
(* argument and the result of a call of split_xpath_last on its own;       *)
(* frames holds the selectors of the calls of check_or_make_target that    *)
(* have not returned, the innermost last, when the recursion is followed   *)
(* call by call.                                                           *)
(***************************************************************************)
EXTENDS Integers, Sequences, FiniteSets, TLC

VARIABLES file, loaded, tree, req, changed, outcome, prev, calls, selector, split, frames

vars == <<file, loaded, tree, req, changed, outcome, prev, calls, selector, split, frames>>

\* Python's None, as the text of an element without text and as the result
\* of a failed attribute lookup; it is no XML string.
None == "<None>"

\* The largest number of requests of one operation run one after the other on
\* one document.
MaxCalls == 2

\* The largest number of requests run on one document when every request may
\* be of any operation.
MaxMixedCalls == 1

\* The largest number of ensure requests run on one document when the
\* recursion is followed call by call.
MaxFollowedCalls == 1

-----------------------------------------------------------------------------
(* Sequences *)

Last(s) == s[Len(s)]

Front(s) == SubSeq(s, 1, Len(s) - 1)

Max(S) == CHOOSE x \in S : \A y \in S : y <= x

Range(s) == {s[i] : i \in 1..Len(s)}

RECURSIVE Join(_)
\* The string a token sequence spells.
Join(s) == IF s = <<>> THEN "" ELSE Head(s) \o Join(Tail(s))

RECURSIVE Flatten(_)
Flatten(ss) == IF ss = <<>> THEN <<>> ELSE Head(ss) \o Flatten(Tail(ss))

-----------------------------------------------------------------------------
(* lxml elements *)

Element(tag) == [tag |-> tag, text |-> None, attrib |-> <<>>, kids |-> <<>>]

RECURSIVE NodeAt(_, _)
NodeAt(t, p) == IF p = <<>> THEN t ELSE NodeAt(t.kids[Head(p)], Tail(p))

RECURSIVE ReplaceAt(_, _, _)
\* t with the element at path p replaced by n
ReplaceAt(t, p, n) ==
    IF p = <<>> THEN n
    ELSE [t EXCEPT !.kids = [t.kids EXCEPT ![Head(p)] = ReplaceAt(t.kids[Head(p)], Tail(p), n)]]

\* element.attrib: name in attrib, attrib[name] / element.get(name), attrib[name] = v, pop
AttrHas(n, k) == \E i \in 1..Len(n.attrib) : n.attrib[i][1] = k

AttrGet(n, k) ==
    IF AttrHas(n, k)
    THEN n.attrib[CHOOSE i \in 1..Len(n.attrib) : n.attrib[i][1] = k][2]
    ELSE None

AttrSet(n, k, v) ==
    IF AttrHas(n, k)
    THEN [n EXCEPT !.attrib = [i \in 1..Len(n.attrib) |->
                                  IF n.attrib[i][1] = k THEN <<k, v>> ELSE n.attrib[i]]]
    ELSE [n EXCEPT !.attrib = Append(n.attrib, <<k, v>>)]

AttrPop(n, k) == [n EXCEPT !.attrib = SelectSeq(n.attrib, LAMBDA kv : kv[1] # k)]

\* element.extend(new): the elements become the last children
Extend(n, new) == [n EXCEPT !.kids = n.kids \o new]

\* the element without its last cnt children (they were moved elsewhere)
DropLast(n, cnt) == [n EXCEPT !.kids = SubSeq(n.kids, 1, Len(n.kids) - cnt)]

RemoveKid(n, i) ==
    [n EXCEPT !.kids = SubSeq(n.kids, 1, i - 1) \o SubSeq(n.kids, i + 1, Len(n.kids))]

-----------------------------------------------------------------------------
(* The path grammar: _ident, _nsIdent, _xpstr and the six regular expressions *)

\* The atoms that spell a name: _ident = [a-zA-Z-][a-zA-Z0-9_\-\.]*
Ident == {"a", "b", "c", "d", "n", "v", "w", "x", "y", "z"}

Quote == {"'", "\""}

IsIdent(tok) == tok \in Ident

\* _nsIdent = _ident | _ident ":" _ident, as a whole token sequence
IsNsIdent(q) ==
    \/ Len(q) = 1 /\ IsIdent(q[1])
    \/ Len(q) = 3 /\ IsIdent(q[1]) /\ q[2] = ":" /\ IsIdent(q[3])

\* _xpstr = ('(?:.*)'|"(?:.*)"), as a whole token sequence
IsXpstr(q) == Len(q) >= 2 /\ q[1] \in Quote /\ Last(q) = q[1]

\* g[1:-1]; the tokens between the quotes spell the value
_extract_xpstr(g) == Join(SubSeq(g, 2, Len(g) - 1))

\* The length of the _nsIdent that starts at token i of t and is followed by
\* something that is no ":".
NameLen(t, i) == IF Len(t) >= i + 1 /\ t[i + 1] = ":" THEN 3 ELSE 1

\* what follows the first i tokens of s
Suffix(s, i) == SubSeq(s, i + 1, Len(s))

\* "^(.*)" followed by a tail: the group is greedy, so it is the longest prefix
\* of s after which the rest of s matches the tail.  C holds the lengths of the
\* prefixes after which it matches; -1 when there is none.
Longest(C) == IF C = {} THEN -1 ELSE Max(C)

\* the tail of _re_splitSimpleLast: /(nsIdent)$
TailSimpleLast(t) == Len(t) >= 2 /\ t[1] = "/" /\ IsNsIdent(Tail(t))

\* The same tail with the parentheses of text() left unescaped in the regular
\* expression: an empty group, so that the tail is /(nsIdent)/text=xpstr$.
TailSimpleLastEqValueUnescaped(t) ==
    /\ Len(t) >= 2 /\ t[1] = "/"
    /\ LET n == NameLen(t, 2)
       IN  /\ Len(t) >= n + 6
           /\ IsNsIdent(SubSeq(t, 2, n + 1))
           /\ t[n + 2] = "/" /\ t[n + 3] = "text" /\ t[n + 4] = "="
           /\ IsXpstr(SubSeq(t, n + 5, Len(t)))

\* the tail of _re_splitSimpleLastEqValue: /(nsIdent)/text()=xpstr$
TailSimpleLastEqValue(t) ==
    /\ Len(t) >= 2 /\ t[1] = "/"
    /\ LET n == NameLen(t, 2)
       IN  /\ Len(t) >= n + 6
           /\ IsNsIdent(SubSeq(t, 2, n + 1))
           /\ t[n + 2] = "/" /\ t[n + 3] = "text()" /\ t[n + 4] = "="
           /\ IsXpstr(SubSeq(t, n + 5, Len(t)))

\* the tail of _re_splitSimpleAttrLast: /(@(?:nsIdent))$
TailSimpleAttrLast(t) ==
    Len(t) >= 3 /\ t[1] = "/" /\ t[2] = "@" /\ IsNsIdent(SubSeq(t, 3, Len(t)))

\* the tail of _re_splitSimpleAttrLastEqValue: /(@(?:nsIdent))=xpstr$
TailSimpleAttrLastEqValue(t) ==
    /\ Len(t) >= 3 /\ t[1] = "/" /\ t[2] = "@"
    /\ LET n == NameLen(t, 3)
       IN  /\ Len(t) >= n + 5
           /\ IsNsIdent(SubSeq(t, 3, n + 2))
           /\ t[n + 3] = "="
           /\ IsXpstr(SubSeq(t, n + 4, Len(t)))

\* the tail of _re_splitSubLast: /(nsIdent)\[(.*)\]$
TailSubLast(t) ==
    /\ Len(t) >= 2 /\ t[1] = "/"
    /\ LET n == NameLen(t, 2)
       IN  /\ Len(t) >= n + 3
           /\ IsNsIdent(SubSeq(t, 2, n + 1))
           /\ t[n + 2] = "[" /\ Last(t) = "]"

\* the tail of _re_splitOnlyEqValue: /text()=xpstr$
TailOnlyEqValue(t) ==
    /\ Len(t) >= 5 /\ t[1] = "/" /\ t[2] = "text()" /\ t[3] = "="
    /\ IsXpstr(SubSeq(t, 4, Len(t)))

RECURSIVE LStrip(_)
LStrip(s) == IF s # <<>> /\ Head(s) = " " THEN LStrip(Tail(s)) ELSE s

RECURSIVE RStrip(_)
RStrip(s) == IF s # <<>> /\ Last(s) = " " THEN RStrip(Front(s)) ELSE s

\* str.strip()
Strip(s) == RStrip(LStrip(s))

RECURSIVE SplitOn(_, _)
\* str.split(sep), for a separator that is one token
SplitOn(s, sep) ==
    IF \E i \in 1..Len(s) : s[i] = sep
    THEN LET i == CHOOSE j \in 1..Len(s) : s[j] = sep /\ \A k \in 1..(j - 1) : s[k] # sep
         IN  <<SubSeq(s, 1, i - 1)>> \o SplitOn(SubSeq(s, i + 1, Len(s)), sep)
    ELSE <<s>>

\* split_xpath_last: (prefix, changes), each change [eoa, value]; the rules
\* are tried in the order of the code and the first that matches decides.
split_xpath_last(xpath0) ==
    LET xpath == Strip(xpath0)
        i1 == Longest({i \in 0..Len(xpath) : TailSimpleLast(Suffix(xpath, i))})
        i2 == Longest({i \in 0..Len(xpath) : TailSimpleLastEqValue(Suffix(xpath, i))})
        i3 == Longest({i \in 0..Len(xpath) : TailSimpleAttrLast(Suffix(xpath, i))})
        i4 == Longest({i \in 0..Len(xpath) : TailSimpleAttrLastEqValue(Suffix(xpath, i))})
        i5 == Longest({i \in 0..Len(xpath) : TailSubLast(Suffix(xpath, i))})
        i6 == Longest({i \in 0..Len(xpath) : TailOnlyEqValue(Suffix(xpath, i))})
        rest(i) == Suffix(xpath, i)
        pre(i) == SubSeq(xpath, 1, i)
    IN  IF i1 >= 0 THEN
            [prefix |-> pre(i1), changes |-> <<[eoa |-> Tail(rest(i1)), value |-> None]>>]
        ELSE IF i2 >= 0 THEN
            LET t == rest(i2)
                n == NameLen(t, 2)
            IN  [prefix |-> pre(i2),
                 changes |-> <<[eoa |-> SubSeq(t, 2, n + 1),
                                value |-> _extract_xpstr(SubSeq(t, n + 5, Len(t)))]>>]
        ELSE IF i3 >= 0 THEN
            [prefix |-> pre(i3), changes |-> <<[eoa |-> Tail(rest(i3)), value |-> None]>>]
        ELSE IF i4 >= 0 THEN
            LET t == rest(i4)
                n == NameLen(t, 3)
            IN  [prefix |-> pre(i4),
                 changes |-> <<[eoa |-> SubSeq(t, 2, n + 2),
                                value |-> _extract_xpstr(SubSeq(t, n + 4, Len(t)))]>>]
        ELSE IF i5 >= 0 THEN
            LET t == rest(i5)
                n == NameLen(t, 2)
                group3 == SubSeq(t, n + 3, Len(t) - 1)
                parts == SplitOn(group3, " and ")
                content == [k \in 1..Len(parts) |-> Strip(parts[k])]
            IN  [prefix |-> pre(i5),
                 changes |-> <<[eoa |-> <<"/">> \o SubSeq(t, 2, n + 1), value |-> content]>>]
        ELSE IF i6 >= 0 THEN
            [prefix |-> pre(i6),
             changes |-> <<[eoa |-> <<>>,
                            value |-> _extract_xpstr(SubSeq(rest(i6), 4, Len(rest(i6))))]>>]
        ELSE [prefix |-> xpath, changes |-> <<>>]

-----------------------------------------------------------------------------
(* Namespaces *)

\* name.split(":") of a name with a prefix: it raises ValueError unless there
\* are exactly two parts, and namespaces[nsname] raises KeyError for a prefix
\* the map does not hold.
ClarkRaises(name, namespaces) ==
    /\ ":" \in Range(name)
    /\ LET parts == SplitOn(name, ":")
       IN  Len(parts) # 2 \/ Join(parts[1]) \notin DOMAIN namespaces

\* "{{{0}}}{1}".format(namespaces[nsname], rawname), as tokens
ClarkTokens(name, namespaces) ==
    LET parts == SplitOn(name, ":")
    IN  <<"{">> \o namespaces[Join(parts[1])] \o <<"}">> \o parts[2]

\* nsnameToClark: the name as lxml stores it
nsnameToClark(name, namespaces) ==
    IF ":" \in Range(name) THEN Join(ClarkTokens(name, namespaces)) ELSE Join(name)

-----------------------------------------------------------------------------
(* tree.xpath(xpath, namespaces=namespaces): lxml's evaluator, for the       *)
(* dialect of the module: child steps by name, a predicate made of           *)
(* conditions joined by " and " (@name='v', text()='v', @name, a child       *)
(* name), a final @name or text() step, "." and an "=" comparison with a     *)
(* literal.  The result is a list of elements ("nodes"), of attribute values *)
(* ("attrs", each <<owner, name>>), of text nodes ("texts", each the owner), *)
(* a boolean ("bool"), or the XPathEvalError that an invalid expression      *)
(* raises ("error").  "unsupported" marks what is outside the dialect.       *)

NodeList(items) == [kind |-> "nodes", items |-> items, truth |-> FALSE]

XPathEvalError == [kind |-> "error", items |-> <<>>, truth |-> FALSE]

Unsupported == [kind |-> "unsupported", items |-> <<>>, truth |-> FALSE]

\* a name with a prefix the namespaces do not hold: "Undefined namespace prefix"
UndefinedPrefix(name, namespaces) ==
    ":" \in Range(name) /\ name[1] \notin DOMAIN namespaces

PredKind(p) ==
    IF Len(p) >= 2 /\ p[1] = "@" /\ IsNsIdent(Tail(p)) THEN "attr"
    ELSE IF /\ Len(p) >= 2 /\ p[1] = "@"
            /\ Len(p) >= NameLen(p, 2) + 4
            /\ IsNsIdent(SubSeq(p, 2, NameLen(p, 2) + 1))
            /\ p[NameLen(p, 2) + 2] = "="
            /\ IsXpstr(SubSeq(p, NameLen(p, 2) + 3, Len(p))) THEN "attreq"
    ELSE IF Len(p) >= 4 /\ p[1] = "text()" /\ p[2] = "=" /\ IsXpstr(SubSeq(p, 3, Len(p)))
         THEN "texteq"
    ELSE IF IsNsIdent(p) THEN "child"
    ELSE "unsupported"

\* the name a condition mentions, <<>> when it mentions none
PredName(p) ==
    CASE PredKind(p) = "attr" -> Tail(p)
      [] PredKind(p) = "attreq" -> SubSeq(p, 2, NameLen(p, 2) + 1)
      [] PredKind(p) = "child" -> p
      [] OTHER -> <<>>

PredHolds(n, p, namespaces) ==
    CASE PredKind(p) = "attr" -> AttrHas(n, nsnameToClark(Tail(p), namespaces))
      [] PredKind(p) = "attreq" ->
            LET k == NameLen(p, 2)
            IN  AttrGet(n, nsnameToClark(SubSeq(p, 2, k + 1), namespaces))
                    = _extract_xpstr(SubSeq(p, k + 3, Len(p)))
      [] PredKind(p) = "texteq" ->
            n.text # None /\ n.text # "" /\ n.text = _extract_xpstr(SubSeq(p, 3, Len(p)))
      [] PredKind(p) = "child" ->
            \E i \in 1..Len(n.kids) : n.kids[i].tag = nsnameToClark(p, namespaces)
      [] OTHER -> FALSE

\* a step: [kind, name, preds]
ParseStep(q) ==
    IF q = <<".">> THEN [kind |-> "self", name |-> <<>>, preds |-> <<>>]
    ELSE IF q = <<"text()">> THEN [kind |-> "text", name |-> <<>>, preds |-> <<>>]
    ELSE IF Len(q) >= 2 /\ q[1] = "@" /\ IsNsIdent(Tail(q))
         THEN [kind |-> "attr", name |-> Tail(q), preds |-> <<>>]
    ELSE IF IsNsIdent(q) THEN [kind |-> "child", name |-> q, preds |-> <<>>]
    ELSE IF /\ q # <<>>
            /\ Len(q) >= NameLen(q, 1) + 2
            /\ IsNsIdent(SubSeq(q, 1, NameLen(q, 1)))
            /\ q[NameLen(q, 1) + 1] = "[" /\ Last(q) = "]"
            /\ LET inside == SubSeq(q, NameLen(q, 1) + 2, Len(q) - 1)
               IN  "[" \notin Range(inside) /\ "]" \notin Range(inside)
         THEN LET parts == SplitOn(SubSeq(q, NameLen(q, 1) + 2, Len(q) - 1), " and ")
              IN  [kind |-> "child", name |-> SubSeq(q, 1, NameLen(q, 1)),
                   preds |-> [k \in 1..Len(parts) |-> Strip(parts[k])]]
    ELSE [kind |-> "unsupported", name |-> <<>>, preds |-> <<>>]

StepUnsupported(st) ==
    \/ st.kind = "unsupported"
    \/ \E k \in 1..Len(st.preds) : PredKind(st.preds[k]) = "unsupported"

StepUndefinedPrefix(st, namespaces) ==
    \/ UndefinedPrefix(st.name, namespaces)
    \/ \E k \in 1..Len(st.preds) : UndefinedPrefix(PredName(st.preds[k]), namespaces)

\* the children of the context elements that a child step selects, in document order
ChildStep(root, ctxs, st, namespaces) ==
    Flatten([i \in 1..Len(ctxs) |->
        LET n == NodeAt(root, ctxs[i])
        IN  SelectSeq([k \in 1..Len(n.kids) |-> ctxs[i] \o <<k>>],
                      LAMBDA q : /\ NodeAt(root, q).tag = nsnameToClark(st.name, namespaces)
                                 /\ \A j \in 1..Len(st.preds) :
                                        PredHolds(NodeAt(root, q), st.preds[j], namespaces))])

RECURSIVE EvalSteps(_, _, _, _)
\* a location path, step by step, from the context elements ctxs
EvalSteps(root, ctxs, steps, namespaces) ==
    LET Attrs(k, owners) ==
            [kind |-> "attrs", items |-> [i \in 1..Len(owners) |-> <<owners[i], k>>],
             truth |-> FALSE]
        Step(st) ==
            IF StepUnsupported(st) THEN Unsupported
            ELSE IF StepUndefinedPrefix(st, namespaces) THEN XPathEvalError
            ELSE IF st.kind = "self" THEN EvalSteps(root, ctxs, Tail(steps), namespaces)
            ELSE IF st.kind = "child"
                 THEN EvalSteps(root, ChildStep(root, ctxs, st, namespaces), Tail(steps),
                                namespaces)
            ELSE IF Tail(steps) # <<>> THEN Unsupported
            ELSE IF st.kind = "attr"
                 THEN Attrs(nsnameToClark(st.name, namespaces),
                            SelectSeq(ctxs, LAMBDA q :
                                AttrHas(NodeAt(root, q), nsnameToClark(st.name, namespaces))))
            ELSE [kind |-> "texts",
                  items |-> SelectSeq(ctxs, LAMBDA q : NodeAt(root, q).text # None
                                                       /\ NodeAt(root, q).text # ""),
                  truth |-> FALSE]
    IN  IF steps = <<>> THEN NodeList(ctxs) ELSE Step(ParseStep(Head(steps)))

\* The document node above the root element, for a path that starts with "/".
DocumentNode(t) == [tag |-> "#document", text |-> None, attrib |-> <<>>, kids |-> <<t>>]

\* a location path on the tree t (a path that does not start with "/" is
\* evaluated from the root element of an ElementTree, or from the element)
EvalPath(t, s, namespaces) ==
    LET \* the results below the document node, as paths from the root element
        FromDocument(r) ==
            IF r.kind \in {"nodes", "texts"}
            THEN [r EXCEPT !.items = [i \in 1..Len(r.items) |-> Tail(r.items[i])]]
            ELSE IF r.kind = "attrs"
            THEN [r EXCEPT !.items = [i \in 1..Len(r.items) |->
                                         <<Tail(r.items[i][1]), r.items[i][2]>>]]
            ELSE r
        Absolute(steps) ==
            IF <<>> \in Range(steps) \/ ParseStep(Head(steps)).kind = "self"
            THEN Unsupported
            ELSE FromDocument(EvalSteps(DocumentNode(t), << <<>> >>, steps, namespaces))
        Relative(steps) ==
            IF <<>> \in Range(steps) THEN Unsupported
            ELSE EvalSteps(t, << <<>> >>, steps, namespaces)
    IN  IF s = <<>> THEN XPathEvalError
        ELSE IF Head(s) = "/" THEN Absolute(Tail(SplitOn(s, "/")))
        ELSE Relative(SplitOn(s, "/"))

\* tree.xpath(xpath, namespaces=namespaces)
XPath(t, s, namespaces) ==
    LET Compare(r, val) ==
            IF r.kind = "attrs"
            THEN [kind |-> "bool", items |-> <<>>,
                  truth |-> \E i \in 1..Len(r.items) :
                      AttrGet(NodeAt(t, r.items[i][1]), r.items[i][2]) = val]
            ELSE IF r.kind = "texts"
            THEN [kind |-> "bool", items |-> <<>>,
                  truth |-> \E i \in 1..Len(r.items) : NodeAt(t, r.items[i]).text = val]
            ELSE IF r.kind = "error" THEN r
            ELSE Unsupported
        \* a comparison: path = 'literal', the literal opening at token j
        Comparison(j) ==
            IF j < 2 THEN Unsupported
            ELSE IF s[j - 1] # "=" THEN Unsupported
            ELSE Compare(EvalPath(t, SubSeq(s, 1, j - 2), namespaces),
                         Join(SubSeq(s, j + 1, Len(s) - 1)))
        Opening == {j \in 1..(Len(s) - 1) : s[j] = Last(s)}
    IN  IF s # <<>> /\ Last(s) \in Quote
        THEN IF Opening = {} THEN Unsupported ELSE Comparison(Max(Opening))
        ELSE EvalPath(t, s, namespaces)

\* "if tree.xpath(...)": a non-empty list, or the boolean True
Truthy(r) == IF r.kind = "bool" THEN r.truth ELSE r.items # <<>>

\* xpath_matches
xpath_matches(t, xpath, namespaces) == Truthy(XPath(t, xpath, namespaces))

\* match[0] raises when the expression is invalid, and when it evaluates to
\* True: match[0] of a boolean is a TypeError.
Raises(r) == r.kind = "error" \/ (r.kind = "bool" /\ r.truth)

MatchRaises(t, xpath, namespaces) == Raises(XPath(t, xpath, namespaces))

\* the result matches and its first item is an element
IsElement(r) == Truthy(r) /\ r.kind = "nodes"

\* is_node: the first match is an element
is_node(t, xpath, namespaces) == IsElement(XPath(t, xpath, namespaces))

\* the result matches and its first item is a string result
IsString(r) == Truthy(r) /\ r.kind \in {"attrs", "texts"}

\* is_attribute: the first match is a string result
is_attribute(t, xpath, namespaces) == IsString(XPath(t, xpath, namespaces))

-----------------------------------------------------------------------------
(* The result of a function of the module: the tree as it leaves it, the    *)
(* changed flag it returns, and how it ended: "ok", "fail" (module.fail_json *)
(* ended the request) or "crash" (an exception left the function).           *)

Ok(t, c) == [tree |-> t, changed |-> c, status |-> "ok"]

Fail(t) == [tree |-> t, changed |-> FALSE, status |-> "fail"]

Crash(t) == [tree |-> t, changed |-> FALSE, status |-> "crash"]

\* No element: the new children are in no tree yet.
NoHolder == <<0>>

RECURSIVE ExtendEach(_, _, _, _)
\* for node in matches: node.extend(new).  An lxml element has one parent:
\* extend() moves the elements of new out of the element that held them (the
\* match before, where they are the last children) into node.
ExtendEach(t, matches, holder, new) ==
    IF matches = <<>> THEN t
    ELSE LET node == Head(matches)
             detached == IF holder = NoHolder THEN t
                         ELSE ReplaceAt(t, holder, DropLast(NodeAt(t, holder), Len(new)))
             attached == ReplaceAt(detached, node, Extend(NodeAt(detached, node), new))
         IN  ExtendEach(attached, Tail(matches), node, new)

\* children_to_nodes(module, [name], "yaml"): one new element of that name
NewKid(name, value) ==
    IF value # None /\ value # "" THEN [Element(name) EXCEPT !.text = value]
    ELSE Element(name)

\* "requesting an element to exist": the new element, with its text if one is
\* given, is appended to every match of the prefix
MakeElement(t, matches, ch, namespaces, check_mode, changed0) ==
    IF ClarkRaises(ch.eoa, namespaces) THEN Crash(t)
    ELSE Ok(IF check_mode THEN t
            ELSE ExtendEach(t, matches, NoHolder,
                            <<NewKid(nsnameToClark(ch.eoa, namespaces), ch.value)>>),
            changed0 \/ matches # <<>>)

RECURSIVE SetTextEach(_, _, _, _)
\* "requesting a change of inner text": the text of every match of the prefix
SetTextEach(t, matches, value, changed0) ==
    IF matches = <<>> THEN Ok(t, changed0)
    ELSE LET node == NodeAt(t, Head(matches))
         IN  IF node.text # value
             THEN SetTextEach(ReplaceAt(t, Head(matches), [node EXCEPT !.text = value]),
                              Tail(matches), value, TRUE)
             ELSE SetTextEach(t, Tail(matches), value, changed0)

RECURSIVE SetAttrEach(_, _, _, _, _, _)
\* "requesting an attribute to exist", with a value or without
SetAttrEach(t, matches, attribute, eoa_value, check_mode, changed0) ==
    IF matches = <<>> THEN Ok(t, changed0)
    ELSE LET element == NodeAt(t, Head(matches))
             changing == \/ ~AttrHas(element, attribute)
                         \/ AttrGet(element, attribute) # eoa_value
             value == IF eoa_value = None THEN "" ELSE eoa_value
         IN  IF ~check_mode /\ changing
             THEN SetAttrEach(ReplaceAt(t, Head(matches), AttrSet(element, attribute, value)),
                              Tail(matches), attribute, eoa_value, check_mode,
                              changed0 \/ changing)
             ELSE SetAttrEach(t, Tail(matches), attribute, eoa_value, check_mode, changed0)

\* the tree with the new element as the last child of the element that holds it
Attach(t, holder, nk) ==
    IF holder = NoHolder THEN t
    ELSE ReplaceAt(t, holder, Extend(NodeAt(t, holder), <<nk>>))

RECURSIVE check_or_make_target(_, _, _, _)
RECURSIVE SubexprEach(_, _, _, _)
RECURSIVE MakeSubscripted(_, _, _, _, _, _, _, _)

\* for subexpr in eoa_value: check_or_make_target(module, nk, "./" + subexpr, namespaces)
SubexprEach(nk, subexprs, namespaces, check_mode) ==
    LET Made(r) ==
            IF r.status # "ok" THEN r
            ELSE SubexprEach(r.tree, Tail(subexprs), namespaces, check_mode)
    IN  IF subexprs = <<>> THEN Ok(nk, FALSE)
        ELSE Made(check_or_make_target(nk, <<".", "/">> \o Head(subexprs), namespaces,
                                       check_mode))

\* The element with a subscript: for every match of the prefix the new element
\* nk is moved into it (outside check mode) and every condition of the
\* subscript is made to hold of nk.  t is the tree without nk, holder the
\* element nk is the last child of.
MakeSubscripted(t, matches, holder, nk, subexprs, namespaces, check_mode, changed0) ==
    LET Made(node, r) ==
            IF r.status # "ok"
            THEN [tree |-> Attach(t, node, r.tree), changed |-> FALSE, status |-> r.status]
            ELSE MakeSubscripted(t, Tail(matches), node, r.tree, subexprs, namespaces,
                                 check_mode, TRUE)
    IN  IF matches = <<>> THEN Ok(Attach(t, holder, nk), changed0)
        ELSE Made(IF check_mode THEN NoHolder ELSE Head(matches),
                  SubexprEach(nk, subexprs, namespaces, check_mode))

\* one (eoa, eoa_value) of the changes (the parser returns at most one),
\* applied to the matches of inner_xpath
ApplyChange(t, matches, ch, namespaces, check_mode, changed0) ==
    IF ch.eoa # <<>> /\ ch.eoa[1] # "@" /\ ch.eoa[1] # "/"
    THEN MakeElement(t, matches, ch, namespaces, check_mode, changed0)
    ELSE IF ch.eoa # <<>> /\ ch.eoa[1] = "/"
    THEN IF ClarkRaises(Tail(ch.eoa), namespaces) THEN Crash(t)
         ELSE MakeSubscripted(t, matches, NoHolder,
                              Element(nsnameToClark(Tail(ch.eoa), namespaces)),
                              ch.value, namespaces, check_mode, changed0)
    ELSE IF ch.eoa = <<>>
    THEN SetTextEach(t, matches, ch.value, changed0)
    ELSE IF ClarkRaises(Tail(ch.eoa), namespaces) THEN Crash(t)
         ELSE SetAttrEach(t, matches, nsnameToClark(Tail(ch.eoa), namespaces), ch.value,
                          check_mode, changed0)

check_or_make_target(t, xpath, namespaces, check_mode) ==
    LET \* "if is_node(tree, inner_xpath) and changes", on the tree of r
        Change(r, m, changes) ==
            IF Raises(m) THEN Crash(r.tree)
            ELSE IF IsElement(m) /\ changes # <<>>
            THEN ApplyChange(r.tree, m.items, changes[1], namespaces, check_mode, r.changed)
            ELSE r
        Made(r, sp) ==
            IF r.status # "ok" THEN r
            ELSE Change(r, XPath(r.tree, sp.prefix, namespaces), sp.changes)
        \* "if not is_node(tree, inner_xpath)"
        Inner(m, sp) ==
            IF Raises(m) THEN Crash(t)
            ELSE Made(IF ~IsElement(m)
                      THEN check_or_make_target(t, sp.prefix, namespaces, check_mode)
                      ELSE Ok(t, FALSE),
                      sp)
        Parsed(sp) ==
            IF sp.prefix = xpath THEN Fail(t)
            ELSE Inner(XPath(t, sp.prefix, namespaces), sp)
    IN  Parsed(split_xpath_last(xpath))

\* ensure_xpath_exists, up to its call of finish
ensure_xpath_exists(t, xpath, namespaces, check_mode) ==
    LET Matches(r) ==
            IF Raises(r) THEN Crash(t)
            ELSE IF ~IsElement(r)
            THEN check_or_make_target(t, xpath, namespaces, check_mode)
            ELSE Ok(t, FALSE)
    IN  Matches(XPath(t, xpath, namespaces))

-----------------------------------------------------------------------------
(* The direct target setter *)

RECURSIVE SetTargetEachLastVerdict(_, _, _, _, _, _, _)
\* A loop whose verdict is that of the last element alone.
SetTargetEachLastVerdict(t, matches, attribute, value, namespaces, check_mode, changed0) ==
    IF matches = <<>> THEN Ok(t, changed0)
    ELSE LET p == Head(matches)
             element == NodeAt(t, p)
         IN  IF attribute = <<>>
             THEN SetTargetEachLastVerdict(
                      IF ~check_mode /\ element.text # value
                      THEN ReplaceAt(t, p, [element EXCEPT !.text = value]) ELSE t,
                      Tail(matches), attribute, value, namespaces, check_mode,
                      element.text # value)
             ELSE LET c == AttrGet(element, Join(attribute)) # value
                  IN  IF ClarkRaises(attribute, namespaces)
                      THEN [tree |-> t, changed |-> c, status |-> "crash"]
                      ELSE LET attr == IF ":" \in Range(attribute)
                                       THEN ClarkTokens(attribute, namespaces)
                                       ELSE attribute
                           IN  SetTargetEachLastVerdict(
                                   IF ~check_mode /\ AttrGet(element, Join(attr)) # value
                                   THEN ReplaceAt(t, p, AttrSet(element, Join(attr), value))
                                   ELSE t,
                                   Tail(matches), attr, value, namespaces, check_mode, c)

RECURSIVE SetTargetEach(_, _, _, _, _, _, _)
\* for element in tree.xpath(xpath): the text, or the attribute.  The name is
\* looked up as given before it is rewritten to its Clark form, and the
\* rewritten name is what the next element starts with.
SetTargetEach(t, matches, attribute, value, namespaces, check_mode, changed0) ==
    IF matches = <<>> THEN Ok(t, changed0)
    ELSE LET p == Head(matches)
             element == NodeAt(t, p)
         IN  IF attribute = <<>>
             THEN SetTargetEach(
                      IF ~check_mode /\ element.text # value
                      THEN ReplaceAt(t, p, [element EXCEPT !.text = value]) ELSE t,
                      Tail(matches), attribute, value, namespaces, check_mode,
                      changed0 \/ element.text # value)
             ELSE LET c == changed0 \/ AttrGet(element, Join(attribute)) # value
                  IN  IF ClarkRaises(attribute, namespaces)
                      THEN [tree |-> t, changed |-> c, status |-> "crash"]
                      ELSE LET attr == IF ":" \in Range(attribute)
                                       THEN ClarkTokens(attribute, namespaces)
                                       ELSE attribute
                           IN  SetTargetEach(
                                   IF ~check_mode /\ AttrGet(element, Join(attr)) # value
                                   THEN ReplaceAt(t, p, AttrSet(element, Join(attr), value))
                                   ELSE t,
                                   Tail(matches), attr, value, namespaces, check_mode, c)

\* set_target_inner; an exception of the first part is caught and reported
set_target_inner(t, xpath, namespaces, attribute, value, check_mode) ==
    LET \* for element in tree.xpath(xpath), on the tree of r
        Set(r, m) ==
            IF Raises(m) THEN Crash(r.tree)
            ELSE IF ~IsElement(m) THEN Fail(r.tree)
            ELSE SetTargetEach(r.tree, m.items, attribute, value, namespaces, check_mode,
                               r.changed)
        Made(r) == IF r.status # "ok" THEN r ELSE Set(r, XPath(r.tree, xpath, namespaces))
        Caught(r) == IF r.status = "crash" THEN Fail(r.tree) ELSE r
        Try(m) ==
            IF Raises(m) THEN Fail(t)
            ELSE IF ~IsElement(m)
            THEN Caught(check_or_make_target(t, xpath, namespaces, check_mode))
            ELSE Ok(t, FALSE)
    IN  Made(Try(XPath(t, xpath, namespaces)))

-----------------------------------------------------------------------------
(* The node builder and the serialisation *)

\* A child given as data: a string (form "str"), a hash of one key with a
\* scalar (form "scalar") or with a hash of attributes and, under "_", a list
\* of children (form "dict"), or a hash of several keys (form "multi").
StrSpec(key) == [form |-> "str", key |-> key, value |-> None, attrs |-> <<>>, sub |-> <<>>]

ScalarSpec(key, value) ==
    [form |-> "scalar", key |-> key, value |-> value, attrs |-> <<>>, sub |-> <<>>]

DictSpec(key, attrs, sub) ==
    [form |-> "dict", key |-> key, value |-> None, attrs |-> attrs, sub |-> sub]

MultiSpec == [form |-> "multi", key |-> "", value |-> None, attrs |-> <<>>, sub |-> <<>>]

RECURSIVE SpecFails(_)
\* "Can only create children from hashes with one key"
SpecFails(child) ==
    \/ child.form = "multi"
    \/ \E i \in 1..Len(child.sub) : SpecFails(child.sub[i])

RECURSIVE child_to_element(_)
\* child_to_element, for the input type "yaml"
child_to_element(child) ==
    IF child.form = "str" THEN Element(child.key)
    ELSE IF child.form = "scalar" THEN [Element(child.key) EXCEPT !.text = child.value]
    ELSE [tag |-> child.key, text |-> None, attrib |-> child.attrs,
          kids |-> [i \in 1..Len(child.sub) |-> child_to_element(child.sub[i])]]

children_to_nodes(children) == [i \in 1..Len(children) |-> child_to_element(children[i])]

RECURSIVE JoinAll(_)
JoinAll(ss) == IF ss = <<>> THEN "" ELSE Head(ss) \o JoinAll(Tail(ss))

RECURSIVE tostring(_)
\* lxml.etree.tostring(element): attributes in their order, an element without
\* text and children as an empty-element tag
tostring(n) ==
    LET attrs == JoinAll([i \in 1..Len(n.attrib) |->
                    " " \o n.attrib[i][1] \o "=\"" \o n.attrib[i][2] \o "\""])
    IN  IF n.text = None /\ n.kids = <<>>
        THEN "<" \o n.tag \o attrs \o "/>"
        ELSE "<" \o n.tag \o attrs \o ">"
                 \o (IF n.text = None THEN "" ELSE n.text)
                 \o JoinAll([i \in 1..Len(n.kids) |-> tostring(n.kids[i])])
                 \o "</" \o n.tag \o ">"

-----------------------------------------------------------------------------
(* The children reconciler *)

\* replace_children_of: the children of match are removed and the new ones
\* moved in, out of the match that held them
replace_children_of(t, children, match, holder) ==
    LET detached == IF holder = NoHolder THEN t
                    ELSE ReplaceAt(t, holder, DropLast(NodeAt(t, holder), Len(children)))
    IN  ReplaceAt(detached, match, [NodeAt(detached, match) EXCEPT !.kids = children])

\* A comparison that ignores the order of the children.
DifferUnordered(match, children_as_string) ==
    IF Len(match.kids) = Len(children_as_string)
    THEN \E s \in Range(children_as_string) :
             Cardinality({i \in 1..Len(match.kids) : tostring(match.kids[i]) = s})
                 # Cardinality({i \in 1..Len(children_as_string) : children_as_string[i] = s})
    ELSE TRUE

\* "Check if elements differ": the counts, then the children position by position
Differ(match, children_as_string) ==
    IF Len(match.kids) = Len(children_as_string)
    THEN \E idx \in 1..Len(match.kids) : tostring(match.kids[idx]) # children_as_string[idx]
    ELSE TRUE

RECURSIVE SetChildrenEach(_, _, _, _, _, _)
SetChildrenEach(t, matches, holder, children, check_mode, changed0) ==
    IF matches = <<>> THEN Ok(t, changed0)
    ELSE LET match == Head(matches)
             children_as_string == [i \in 1..Len(children) |-> tostring(children[i])]
         IN  IF Differ(NodeAt(t, match), children_as_string)
             THEN IF check_mode
                  THEN SetChildrenEach(t, Tail(matches), holder, children, check_mode, TRUE)
                  ELSE SetChildrenEach(replace_children_of(t, children, match, holder),
                                       Tail(matches), match, children, check_mode, TRUE)
             ELSE SetChildrenEach(t, Tail(matches), holder, children, check_mode, changed0)

\* set_target_children_inner: a selector that is invalid, or that yields a
\* boolean or strings, raises (a boolean cannot be iterated, a string has no
\* getchildren)
set_target_children_inner(t, xpath, namespaces, children, check_mode) ==
    LET Matches(r) ==
            IF r.kind = "error" THEN Crash(t)
            ELSE IF \E i \in 1..Len(children) : SpecFails(children[i]) THEN Fail(t)
            ELSE IF r.kind = "bool" \/ (r.kind # "nodes" /\ r.items # <<>>) THEN Crash(t)
            ELSE IF r.kind # "nodes" THEN Ok(t, FALSE)
            ELSE SetChildrenEach(t, r.items, NoHolder, children_to_nodes(children),
                                 check_mode, FALSE)
    IN  Matches(XPath(t, xpath, namespaces))

\* add_target_children, up to its call of finish
add_target_children(t, xpath, namespaces, children, check_mode) ==
    LET Matches(r) ==
            IF Raises(r) THEN Crash(t)
            ELSE IF IsElement(r)
            THEN IF \E i \in 1..Len(children) : SpecFails(children[i]) THEN Fail(t)
                 ELSE Ok(IF check_mode THEN t
                         ELSE ExtendEach(t, r.items, NoHolder, children_to_nodes(children)),
                         TRUE)
            ELSE Ok(t, FALSE)
    IN  Matches(XPath(t, xpath, namespaces))

-----------------------------------------------------------------------------
(* Removal *)

\* the path of an element after the element at path gone was removed
Shift(p, gone) ==
    IF /\ Len(p) >= Len(gone)
       /\ SubSeq(p, 1, Len(gone) - 1) = Front(gone)
       /\ p[Len(gone)] > Last(gone)
    THEN [p EXCEPT ![Len(gone)] = @ - 1]
    ELSE p

RECURSIVE DeleteEach(_, _, _, _, _)
\* for result in tree.xpath(xpath): the selector is evaluated again for every
\* result, on the tree as it is by then (m).  Every exception is caught and
\* reported: a string with no attrname (a text node), an element without a
\* parent (the root).
DeleteEach(t, kind, results, xpath, namespaces) ==
    LET Delete(m) ==
            IF Raises(m) THEN Fail(t)
            ELSE IF IsString(m)
            THEN IF kind # "attrs" THEN Fail(t)
                 ELSE DeleteEach(ReplaceAt(t, Head(results)[1],
                                           AttrPop(NodeAt(t, Head(results)[1]),
                                                   Head(results)[2])),
                                 kind, Tail(results), xpath, namespaces)
            ELSE IF IsElement(m)
            THEN IF kind # "nodes" \/ Head(results) = <<>> THEN Fail(t)
                 ELSE DeleteEach(ReplaceAt(t, Front(Head(results)),
                                           RemoveKid(NodeAt(t, Front(Head(results))),
                                                     Last(Head(results)))),
                                 kind,
                                 [i \in 1..(Len(results) - 1) |->
                                     Shift(results[i + 1], Head(results))],
                                 xpath, namespaces)
            ELSE DeleteEach(t, kind, Tail(results), xpath, namespaces)
    IN  IF results = <<>> THEN Ok(t, TRUE) ELSE Delete(XPath(t, xpath, namespaces))

\* delete_xpath_target, up to its call of finish: changed is True whenever no
\* exception was raised
delete_xpath_target(t, xpath, namespaces, check_mode) ==
    LET Results(r) ==
            IF r.kind \in {"error", "bool"} THEN Fail(t)
            ELSE IF check_mode THEN Ok(t, TRUE)
            ELSE DeleteEach(t, r.kind, r.items, xpath, namespaces)
    IN  Results(XPath(t, xpath, namespaces))

-----------------------------------------------------------------------------
(* The requests *)

\* the namespaces parameter: the prefix n
Namespaces == ("n" :> <<"urn", ":", "u">>)

NsC == "{urn:u}c"

Leaf(tag) == Element(tag)

B(text, attrib, kids) == [tag |-> "b", text |-> text, attrib |-> attrib, kids |-> kids]

A(attrib, kids) == [tag |-> "a", text |-> None, attrib |-> attrib, kids |-> kids]

\* the elements b of the documents
Bs ==
    { B(None, <<>>, <<>>),
      B("v", <<>>, <<>>),
      B(None, << <<"c", "v">> >>, <<>>),
      B(None, << <<"x", "1">> >>, <<>>),
      B(None, << <<NsC, "v">> >>, <<>>),
      B(None, <<>>, <<Leaf("c")>>),
      B(None, <<>>, <<Leaf("x"), Leaf("y")>>),
      B(None, <<>>, <<Leaf("y"), Leaf("x")>>) }

\* The documents a request is run on: the root a, with or without the
\* attribute c, and up to two children b.
Documents ==
    {A(<<>>, <<>>), A(<< <<"c", "v">> >>, <<>>)}
        \cup {A(<<>>, <<b>>) : b \in Bs}
        \cup {A(<<>>, <<B(None, <<>>, <<>>), b>>) : b \in Bs}
        \cup {A(<<>>, <<b, b>>) : b \in Bs}

\* selectors, as token sequences
Xab == <<"/", "a", "/", "b">>

Xa == <<"/", "a">>

Xaz == <<"/", "a", "/", "z">>

Xabc == <<"/", "a", "/", "b", "/", "c">>

Xacd == <<"/", "a", "/", "c", "/", "d">>

XabAtc == <<"/", "a", "/", "b", "/", "@", "c">>

XaAtc == <<"/", "a", "/", "@", "c">>

XabAtcV == <<"/", "a", "/", "b", "/", "@", "c", "=", "'", "v", "'">>

XabAtx5 == <<"/", "a", "/", "b", "/", "@", "x", "=", "'", "5", "'">>

XabTextV == <<"/", "a", "/", "b", "/", "text()", "=", "'", "v", "'">>

\* the empty literal
XabTextEmpty == <<"/", "a", "/", "b", "/", "text()", "=", "'", "'">>

XabSub1 == <<"/", "a", "/", "b", "[", "@", "x", "=", "'", "1", "'", "]">>

XabSub2 ==
    <<"/", "a", "/", "b", "[", "@", "x", "=", "'", "1", "'", " and ",
      "@", "y", "=", "'", "2", "'", "]">>

XabSub1TextV ==
    <<"/", "a", "/", "b", "[", "@", "x", "=", "'", "1", "'", "]", "/", "text()", "=",
      "'", "v", "'">>

Xb == <<"/", "b">>

Xrel == <<"a">>

XaNsb == <<"/", "a", "/", "n", ":", "b">>

XabAtNsc == <<"/", "a", "/", "b", "/", "@", "n", ":", "c">>

EnsureXpaths ==
    {Xab, Xabc, Xacd, XabAtc, XaAtc, XabAtcV, XabAtx5, XabTextV, XabTextEmpty, XabSub1,
     XabSub2, XabSub1TextV, Xb, Xrel, XaNsb, XabAtNsc}

SetXpaths == {Xab, Xa, Xaz}

SetAttributes == {<<>>, <<"c">>, <<"n", ":", "c">>}

SetValues == {"v", "w"}

ChildrenXpaths == {Xab, Xa, Xaz, XaAtc}

ChildLists ==
    { <<StrSpec("x"), StrSpec("y")>>,
      <<StrSpec("y"), StrSpec("x")>>,
      <<ScalarSpec("c", "v"), DictSpec("d", << <<"x", "1">> >>, <<StrSpec("y")>>)>>,
      <<MultiSpec>> }

DeleteXpaths == {Xab, Xabc, XaAtc, XabAtc, XabAtNsc, Xaz, Xa}

NoRequest ==
    [op |-> "none", xpath |-> <<>>, check_mode |-> FALSE, value |-> None,
     attribute |-> <<>>, children |-> <<>>]

Request(op, xpath, check_mode, value, attribute, children) ==
    [op |-> op, xpath |-> xpath, check_mode |-> check_mode, value |-> value,
     attribute |-> attribute, children |-> children]

\* split_xpath_last was not called
NoSplit == <<>>

Init ==
    /\ file \in Documents
    /\ loaded = file
    /\ tree = file
    /\ req = NoRequest
    /\ changed = FALSE
    /\ outcome = "none"
    /\ prev = [req |-> NoRequest, changed |-> FALSE, outcome |-> "none", loaded |-> file]
    /\ calls = 0
    /\ selector = <<>>
    /\ split = NoSplit
    /\ frames = <<>>

\* One request: main parses the document, runs the one operation the
\* parameters select, and finish writes the tree back when changed is set; a
\* request that failed writes nothing.
Run(rq, r) ==
    /\ calls' = calls + 1
    /\ prev' = [req |-> req, changed |-> changed, outcome |-> outcome, loaded |-> loaded]
    /\ req' = rq
    /\ loaded' = file
    /\ tree' = r.tree
    /\ changed' = r.changed
    /\ outcome' = IF r.status = "ok" THEN "exit" ELSE r.status
    /\ file' = IF r.status = "ok" /\ r.changed THEN r.tree ELSE file
    /\ UNCHANGED <<selector, split, frames>>

\* state=absent
DeleteXpathTarget ==
    \E xpath \in DeleteXpaths, check_mode \in BOOLEAN :
        Run(Request("remove", xpath, check_mode, None, <<>>, <<>>),
            delete_xpath_target(file, xpath, Namespaces, check_mode))

\* set_children
SetTargetChildren ==
    \E xpath \in ChildrenXpaths, children \in ChildLists, check_mode \in BOOLEAN :
        Run(Request("replace", xpath, check_mode, None, <<>>, children),
            set_target_children_inner(file, xpath, Namespaces, children, check_mode))

\* add_children
AddTargetChildren ==
    \E xpath \in ChildrenXpaths, children \in ChildLists, check_mode \in BOOLEAN :
        Run(Request("append", xpath, check_mode, None, <<>>, children),
            add_target_children(file, xpath, Namespaces, children, check_mode))

\* value
SetTarget ==
    \E xpath \in SetXpaths, attribute \in SetAttributes, value \in SetValues,
       check_mode \in BOOLEAN :
        Run(Request("set", xpath, check_mode, value, attribute, <<>>),
            set_target_inner(file, xpath, Namespaces, attribute, value, check_mode))

\* none of the others
EnsureXpathExists ==
    \E xpath \in EnsureXpaths, check_mode \in BOOLEAN :
        Run(Request("ensure", xpath, check_mode, None, <<>>, <<>>),
            ensure_xpath_exists(file, xpath, Namespaces, check_mode))

\* Requests of any operation on the file.
Next ==
    /\ calls < MaxMixedCalls
    /\ \/ DeleteXpathTarget
       \/ SetTargetChildren
       \/ AddTargetChildren
       \/ SetTarget
       \/ EnsureXpathExists

Spec == Init /\ [][Next]_vars

\* Requests of one operation, one after the other, on the file.
NextRemove == calls < MaxCalls /\ DeleteXpathTarget

NextReplace == calls < MaxCalls /\ SetTargetChildren

NextAppend == calls < MaxCalls /\ AddTargetChildren

NextSet == calls < MaxCalls /\ SetTarget

NextEnsure == calls < MaxCalls /\ EnsureXpathExists

SpecRemove == Init /\ [][NextRemove]_vars

SpecReplace == Init /\ [][NextReplace]_vars

SpecAppend == Init /\ [][NextAppend]_vars

SpecSet == Init /\ [][NextSet]_vars

SpecEnsure == Init /\ [][NextEnsure]_vars

-----------------------------------------------------------------------------
(* split_xpath_last on its own *)

\* what a selector may have before its trailing segment
SplitPrefixes == {<<>>, Xa, Xab, XabSub1, Xrel}

SplitNames == {<<"b">>, <<"n", ":", "c">>}

\* the tokens between the quotes of a literal
SplitValues == {<<"v">>, <<>>, <<"x", "/", "y">>}

\* the conditions of a subscript
SplitSubscripts ==
    { <<"@", "x", "=", "'", "1", "'">>,
      <<"@", "x", "=", "'", "1", "'", " and ", "@", "y", "=", "'", "2", "'">>,
      <<"c", " and ", " ", "@", "x">> }

\* trailing segments, one set for each rule of the parser, and endings that
\* are no segment
SplitTails ==
    {<<"/">> \o n : n \in SplitNames}
        \cup {<<"/">> \o n \o <<"/", "text()", "=", q>> \o v \o <<q>> :
                 n \in SplitNames, v \in SplitValues, q \in Quote}
        \cup {<<"/", "@">> \o n : n \in SplitNames}
        \cup {<<"/", "@">> \o n \o <<"=", q>> \o v \o <<q>> :
                 n \in SplitNames, v \in SplitValues, q \in Quote}
        \cup {<<"/">> \o n \o <<"[">> \o c \o <<"]">> :
                 n \in SplitNames, c \in SplitSubscripts}
        \cup {<<"/", "text()", "=", q>> \o v \o <<q>> : v \in SplitValues, q \in Quote}
        \cup { <<>>, <<"/">>, <<"/", "@">>, <<"/", "text()">>, <<"/", "b", "[">>,
               <<"/", "b", "=", "'", "v", "'">>, <<"/", ".">>, <<"/", "1">>,
               <<"/", "text()", "=", "v">>, <<"/", "@", "b", "=", "'", "v", "\"">> }

\* surrounding whitespace
SplitPads == {<<>>, <<" ">>}

Selectors ==
    {l \o p \o t \o r : l \in SplitPads, p \in SplitPrefixes, t \in SplitTails,
                        r \in SplitPads}

InitSplit ==
    /\ file = A(<<>>, <<>>)
    /\ loaded = file
    /\ tree = file
    /\ req = NoRequest
    /\ changed = FALSE
    /\ outcome = "none"
    /\ prev = [req |-> NoRequest, changed |-> FALSE, outcome |-> "none", loaded |-> file]
    /\ calls = 0
    /\ selector \in Selectors
    /\ split = NoSplit
    /\ frames = <<>>

\* one call of split_xpath_last(selector)
SplitXpathLast ==
    /\ split = NoSplit
    /\ split' = <<split_xpath_last(selector)>>
    /\ UNCHANGED <<file, loaded, tree, req, changed, outcome, prev, calls, selector, frames>>

SpecSplit == InitSplit /\ [][SplitXpathLast]_vars

-----------------------------------------------------------------------------
(* ensure_xpath_exists, call by call: the calls of check_or_make_target that *)
(* go down the prefixes of the selector, and their returns.                  *)

\* check_or_make_target(xpath) from the return of its recursive call on: the
\* second test of the prefix and the change, on the tree t with changed0
MakeTarget(t, changed0, xpath, namespaces, check_mode) ==
    LET Change(m, changes) ==
            IF Raises(m) THEN Crash(t)
            ELSE IF IsElement(m) /\ changes # <<>>
            THEN ApplyChange(t, m.items, changes[1], namespaces, check_mode, changed0)
            ELSE Ok(t, changed0)
        Parsed(sp) == Change(XPath(t, sp.prefix, namespaces), sp.changes)
    IN  Parsed(split_xpath_last(xpath))

\* ensure_xpath_exists is called: the selector matches an element and the
\* request ends, or check_or_make_target is called on it
EnsureCall ==
    /\ outcome \notin {"descending", "ascending"}
    /\ calls < MaxFollowedCalls
    /\ \E xpath \in EnsureXpaths, check_mode \in BOOLEAN :
           LET Begin(m) ==
                   /\ outcome' = IF Raises(m) THEN "crash"
                                 ELSE IF IsElement(m) THEN "exit"
                                 ELSE "descending"
                   /\ frames' = IF Raises(m) \/ IsElement(m) THEN <<>> ELSE <<xpath>>
           IN  /\ Begin(XPath(file, xpath, Namespaces))
               /\ req' = Request("ensure", xpath, check_mode, None, <<>>, <<>>)
    /\ calls' = calls + 1
    /\ prev' = [req |-> req, changed |-> changed, outcome |-> outcome, loaded |-> loaded]
    /\ loaded' = file
    /\ tree' = file
    /\ changed' = FALSE
    /\ UNCHANGED <<file, selector, split>>

\* The innermost call of check_or_make_target, up to its recursive call: the
\* parser returned its input and fail_json ends the request, or the prefix
\* matches an element, or check_or_make_target is called on the prefix.
CheckOrMakeCall ==
    /\ outcome = "descending"
    /\ LET Inner(m, inner_xpath) ==
               /\ outcome' = IF Raises(m) THEN "crash"
                             ELSE IF IsElement(m) THEN "ascending"
                             ELSE "descending"
               /\ frames' = IF Raises(m) \/ IsElement(m) THEN frames
                            ELSE Append(frames, inner_xpath)
           Parsed(sp) ==
               IF sp.prefix = Last(frames)
               THEN outcome' = "fail" /\ frames' = frames
               ELSE Inner(XPath(tree, sp.prefix, Namespaces), sp.prefix)
       IN  Parsed(split_xpath_last(Last(frames)))
    /\ UNCHANGED <<file, loaded, tree, req, changed, prev, calls, selector, split>>

\* The innermost call of check_or_make_target returns: it tests its prefix
\* again and applies its change; the return of the outermost call is followed
\* by finish, which writes the tree when changed is set.
CheckOrMakeReturn ==
    /\ outcome = "ascending"
    /\ LET Return(r) ==
               /\ tree' = r.tree
               /\ changed' = r.changed
               /\ frames' = IF r.status = "ok" THEN Front(frames) ELSE frames
               /\ outcome' = IF r.status # "ok" THEN r.status
                             ELSE IF Len(frames) = 1 THEN "exit"
                             ELSE "ascending"
               /\ file' = IF r.status = "ok" /\ Len(frames) = 1 /\ r.changed THEN r.tree
                          ELSE file
       IN  Return(MakeTarget(tree, changed, Last(frames), Namespaces, req.check_mode))
    /\ UNCHANGED <<loaded, req, prev, calls, selector, split>>

NextDescent == EnsureCall \/ CheckOrMakeCall \/ CheckOrMakeReturn

SpecDescent == Init /\ [][NextDescent]_vars

-----------------------------------------------------------------------------
(* The properties *)

\* the request ended with exit_json
Exited == outcome = "exit"

\* the request before was the same request, ran for real, and ended with exit_json
Repeated == prev.req = req /\ ~req.check_mode /\ prev.outcome = "exit"

\* the elements the selector of the request matched in the document as loaded
Context == XPath(loaded, req.xpath, Namespaces).items

\* the trailing segment of the selector of the request, and its prefix
Segment == split_xpath_last(req.xpath).changes[1]

Prefix == split_xpath_last(req.xpath).prefix

PrefixContext == XPath(loaded, Prefix, Namespaces).items

\* the selector of the request has a trailing segment that was applied to the
\* matches of a prefix that the document as loaded had
SegmentApplied ==
    /\ req.op = "ensure" /\ Exited
    /\ ~is_node(loaded, req.xpath, Namespaces)
    /\ split_xpath_last(req.xpath).changes # <<>>
    /\ is_node(loaded, Prefix, Namespaces)

\* C1: ensureExists is idempotent: a first real run on a document the selector
\* does not match reports changed; the same run again reports changed=false
\* and leaves the tree as the first run left it; and a run on a document the
\* selector matches already changes nothing.
C1_EnsureIdempotent ==
    (req.op = "ensure" /\ ~req.check_mode /\ Exited) =>
        /\ ~xpath_matches(loaded, req.xpath, Namespaces) => changed
        /\ Repeated => (~changed /\ tree = loaded)
        /\ xpath_matches(loaded, req.xpath, Namespaces) => (~changed /\ tree = loaded)

\* C2: remove reports changed exactly when the selector matched something,
\* and after a real removal the selector matches nothing.
C2_RemoveChangedIffMatched ==
    (req.op = "remove" /\ Exited) =>
        /\ changed <=> xpath_matches(loaded, req.xpath, Namespaces)
        /\ ~req.check_mode => ~xpath_matches(tree, req.xpath, Namespaces)

\* the request is the real run of the request before, a dry run, from the
\* same document
RealAfterDry ==
    /\ prev.req.op # "none" /\ prev.req.check_mode
    /\ req = [prev.req EXCEPT !.check_mode = FALSE]
    /\ prev.loaded = loaded

\* C3: a dry run ends as the real run from the same document does: it fails
\* only where the real run fails, and it reports the same changed.
C3_DryRunSameVerdict ==
    RealAfterDry =>
        /\ prev.outcome # "exit" => ~Exited
        /\ (prev.outcome = "exit" /\ Exited) => prev.changed = changed

\* C4: a dry run leaves the document tree as it was loaded.
C4_DryRunNoWrite ==
    (req.op # "none" /\ req.check_mode) => tree = loaded

\* what a matched element holds where setValue writes: its text, or the
\* attribute of the namespace-qualified name
Held(n) ==
    IF req.attribute = <<>> THEN n.text
    ELSE AttrGet(n, nsnameToClark(req.attribute, Namespaces))

\* C5: setValue on an existing target reports changed exactly when a matched
\* element did not hold the value; after a real run every matched element
\* holds it, and the same request again reports changed=false.
C5_SetValueChangedIffDiffers ==
    (req.op = "set" /\ Exited /\ is_node(loaded, req.xpath, Namespaces)) =>
        /\ changed <=> \E i \in 1..Len(Context) : Held(NodeAt(loaded, Context[i])) # req.value
        /\ ~req.check_mode =>
               \A i \in 1..Len(Context) : Held(NodeAt(tree, Context[i])) = req.value
        /\ Repeated => ~changed

\* the trailing segment asks for an element, with a text or without
ElementSegment == Segment.eoa # <<>> /\ Segment.eoa[1] \notin {"@", "/"}

\* C6: a trailing ElementExists or ElementWithText segment, applied for real,
\* gives every context node a new last child of that name and text, and
\* reports changed.
C6_ElementOnEveryContextNode ==
    (SegmentApplied /\ ~req.check_mode /\ ElementSegment) =>
        /\ changed
        /\ \A i \in 1..Len(PrefixContext) :
               NodeAt(tree, PrefixContext[i]).kids =
                   Append(NodeAt(loaded, PrefixContext[i]).kids,
                          NewKid(nsnameToClark(Segment.eoa, Namespaces), Segment.value))

\* the trailing segment asks for an attribute to exist, with no value
AttributeExistsSegment ==
    Segment.eoa # <<>> /\ Segment.eoa[1] = "@" /\ Segment.value = None

\* C7: a trailing AttributeExists segment leaves a context node that has the
\* attribute as it is, sets the attribute to "" on one that lacks it, and
\* reports changed exactly when some context node lacked it.
C7_AttributeExistsKeepsValue ==
    (SegmentApplied /\ ~req.check_mode /\ AttributeExistsSegment) =>
        LET k == nsnameToClark(Tail(Segment.eoa), Namespaces)
        IN  /\ \A i \in 1..Len(PrefixContext) :
                   LET before == NodeAt(loaded, PrefixContext[i])
                       after == NodeAt(tree, PrefixContext[i])
                   IN  IF AttrHas(before, k) THEN after = before
                       ELSE after = AttrSet(before, k, "")
            /\ changed <=> \E i \in 1..Len(PrefixContext) :
                               ~AttrHas(NodeAt(loaded, PrefixContext[i]), k)

\* the children of n are the desired list: as many, and the same serialised
\* form at every position
HoldsDesired(n) ==
    LET desired == children_to_nodes(req.children)
    IN  /\ Len(n.kids) = Len(desired)
        /\ \A i \in 1..Len(desired) : tostring(n.kids[i]) = tostring(desired[i])

\* C8: after a real Replace every context node holds the desired list, and
\* the same Replace again reports changed=false.
C8_ReplaceEveryContextNode ==
    (req.op = "replace" /\ Exited /\ ~req.check_mode
        /\ is_node(loaded, req.xpath, Namespaces)) =>
        /\ \A i \in 1..Len(Context) : HoldsDesired(NodeAt(tree, Context[i]))
        /\ Repeated => ~changed

\* C9: Replace reports changed exactly when some context node does not hold
\* the desired list position by position; when it reports no change the tree
\* is as loaded, and so it is when the selector matches nothing.
C9_ReplacePositional ==
    (req.op = "replace" /\ Exited) =>
        /\ changed <=> \E i \in 1..Len(Context) : ~HoldsDesired(NodeAt(loaded, Context[i]))
        /\ ~changed => tree = loaded
        /\ Context = <<>> => (~changed /\ tree = loaded)

\* C9, the case of a permutation: the children x, y replaced by y, x, changed
C9_PermutationChanged ==
    /\ req.op = "replace" /\ Exited /\ ~req.check_mode /\ changed
    /\ req.children = <<StrSpec("y"), StrSpec("x")>>
    /\ \E i \in 1..Len(Context) :
           NodeAt(loaded, Context[i]).kids = <<Leaf("x"), Leaf("y")>>
    /\ \A i \in 1..Len(Context) :
           NodeAt(tree, Context[i]).kids = <<Leaf("y"), Leaf("x")>>

\* C10: a real Append adds the new children at the end of every context node
\* and reports changed; when the selector matches no element it reports
\* changed=false and the tree is as loaded.
C10_AppendEveryContextNode ==
    (req.op = "append" /\ Exited) =>
        IF is_node(loaded, req.xpath, Namespaces)
        THEN /\ changed
             /\ ~req.check_mode =>
                    \A i \in 1..Len(Context) :
                        NodeAt(tree, Context[i]).kids =
                            NodeAt(loaded, Context[i]).kids \o children_to_nodes(req.children)
        ELSE ~changed /\ tree = loaded

-----------------------------------------------------------------------------
(* The parser's rules, as the grammar states them *)

\* every name: a local name, or prefix:local
AllNames == {<<x>> : x \in Ident} \cup {<<x, ":", y>> : x \in Ident, y \in Ident}

\* t is head, anything, last
Framed(t, head, last) ==
    Len(t) > Len(head) /\ SubSeq(t, 1, Len(head)) = head /\ Last(t) = last

\* what lies between head and the last token of t, as a string
Between(t, head) == Join(SubSeq(t, Len(head) + 1, Len(t) - 1))

\* The heads of the trailing segments of rule k that have the name n and the
\* quote q: ElementExists (1), ElementWithText (2), AttributeExists (3),
\* AttributeWithValue (4), SubscriptedElement (5), TextValue (6).
RuleHead(k, n, q) ==
    CASE k = 1 -> <<"/">> \o n
      [] k = 2 -> <<"/">> \o n \o <<"/", "text()", "=", q>>
      [] k = 3 -> <<"/", "@">> \o n
      [] k = 4 -> <<"/", "@">> \o n \o <<"=", q>>
      [] k = 5 -> <<"/">> \o n \o <<"[">>
      [] k = 6 -> <<"/", "text()", "=", q>>

\* t is a trailing segment of rule k, with the name n and the quote q
RuleShape(k, t, n, q) ==
    CASE k \in {1, 3} -> t = RuleHead(k, n, q)
      [] k = 5 -> Framed(t, RuleHead(k, n, q), "]")
      [] OTHER -> Framed(t, RuleHead(k, n, q), q)

\* the lengths of the prefixes of g that a trailing segment of rule k follows
RuleCuts(g, k) ==
    {i \in 0..Len(g) : \E n \in AllNames, q \in Quote : RuleShape(k, Suffix(g, i), n, q)}

\* the (raw text, value) pair that rule k yields for the trailing segment t
RuleYields(k, t, ch) ==
    \E n \in AllNames, q \in Quote :
        /\ RuleShape(k, t, n, q)
        /\ CASE k = 1 -> ch = [eoa |-> n, value |-> None]
             [] k = 2 -> ch = [eoa |-> n, value |-> Between(t, RuleHead(k, n, q))]
             [] k = 3 -> ch = [eoa |-> <<"@">> \o n, value |-> None]
             [] k = 4 -> ch = [eoa |-> <<"@">> \o n, value |-> Between(t, RuleHead(k, n, q))]
             [] k = 5 ->
                    LET conds == SplitOn(SubSeq(t, Len(n) + 3, Len(t) - 1), " and ")
                    IN  ch = [eoa |-> <<"/">> \o n,
                              value |-> [j \in 1..Len(conds) |-> Strip(conds[j])]]
             [] k = 6 -> ch = [eoa |-> <<>>, value |-> Between(t, RuleHead(k, n, q))]

\* r is what the grammar gives for g: the first rule in the order 1..6 that a
\* trailing segment of g matches decides, its prefix is the longest it can
\* be, and g itself with no segment is the result when no rule matches
SplitIs(g, r) ==
    LET matching == {k \in 1..6 : RuleCuts(g, k) # {}}
    IN  IF matching = {} THEN r = [prefix |-> g, changes |-> <<>>]
        ELSE LET k == CHOOSE m \in matching : \A o \in matching : m <= o
                 i == Max(RuleCuts(g, k))
             IN  /\ r.prefix = SubSeq(g, 1, i)
                 /\ Len(r.changes) = 1
                 /\ RuleYields(k, Suffix(g, i), r.changes[1])

XaAtbV == <<"/", "a", "/", "@", "b", "=", "'", "v", "'">>

XabSub2xy ==
    <<"/", "a", "/", "b", "[", "@", "x", "=", "'", "1", "'", " and ",
      "@", "y", "=", "'", "2", "'", "]">>

\* the three selectors the grammar is stated on
SplitExamples(g, r) ==
    /\ g = XaAtbV => r = [prefix |-> Xa, changes |-> <<[eoa |-> <<"@", "b">>, value |-> "v"]>>]
    /\ g = XabTextV => r = [prefix |-> Xa, changes |-> <<[eoa |-> <<"b">>, value |-> "v"]>>]
    /\ g = XabSub2xy =>
           r = [prefix |-> Xa,
                changes |-> <<[eoa |-> <<"/", "b">>,
                               value |-> << <<"@", "x", "=", "'", "1", "'">>,
                                            <<"@", "y", "=", "'", "2", "'">> >>]>>]

\* split_xpath_last was called
Called == split # NoSplit

\* C11: split_xpath_last classifies the selector it is given by the first rule
\* that matches in the order ElementExists, ElementWithText, AttributeExists,
\* AttributeWithValue, SubscriptedElement, TextValue, and returns a selector
\* that no rule matches unchanged, with no segment.
C11_SplitByFirstRule ==
    Called => (SplitIs(selector, split[1]) /\ SplitExamples(selector, split[1]))

\* C11, amended: the same of the selector without its surrounding whitespace,
\* which is also what is returned as the prefix when no rule matches.
C11_SplitOfStripped ==
    Called => (SplitIs(Strip(selector), split[1]) /\ SplitExamples(Strip(selector), split[1]))

\* C11: "/a/b/text()='v'" after a blank is ElementWithText(b, v) on "/a"
C11_ElementWithTextNotTextValue ==
    /\ Called
    /\ selector = <<" ">> \o XabTextV
    /\ split[1] = [prefix |-> Xa, changes |-> <<[eoa |-> <<"b">>, value |-> "v"]>>]

-----------------------------------------------------------------------------
(* The postcondition of ensure_xpath_exists *)

\* a real ensure request that ended with exit_json, on a document its
\* selector did not match
EnsuredMissing ==
    /\ req.op = "ensure" /\ ~req.check_mode /\ Exited
    /\ ~xpath_matches(loaded, req.xpath, Namespaces)

\* the element a SubscriptedElement segment created: the last child of the
\* last match of the prefix
Created ==
    LET holders == XPath(tree, Prefix, Namespaces).items
    IN  Last(NodeAt(tree, Last(holders)).kids)

\* C12: after a real ensure on a selector that did not match, changed is
\* reported and the tree matches the selector; "/a/b" and "/a/b/@x='5'" on
\* <a/> give <a><b/></a> and <a><b x="5"/></a>; and the element made for a
\* SubscriptedElement segment satisfies every one of its conditions.
C12_EnsurePostcondition ==
    EnsuredMissing =>
        /\ changed
        /\ xpath_matches(tree, req.xpath, Namespaces)
        /\ (loaded = A(<<>>, <<>>) /\ req.xpath = Xab) => tree = A(<<>>, <<Leaf("b")>>)
        /\ (loaded = A(<<>>, <<>>) /\ req.xpath = XabAtx5) =>
               tree = A(<<>>, <<B(None, << <<"x", "5">> >>, <<>>)>>)
        /\ (Segment.eoa # <<>> /\ Segment.eoa[1] = "/") =>
               /\ Created.tag = nsnameToClark(Tail(Segment.eoa), Namespaces)
               /\ \A j \in 1..Len(Segment.value) :
                      PredHolds(Created, Segment.value[j], Namespaces)

-----------------------------------------------------------------------------
(* The end of the recursion *)

\* a request is between the call of check_or_make_target and its end
Active == outcome \in {"descending", "ascending"}

\* A step of the innermost call: it passes a prefix strictly shorter than its
\* selector to the recursive call, or it ends the recursion at a prefix that
\* matches an element, or it ends the request with the error of a selector
\* that the parser returned as it was given, and with that error only then.
DescentStep ==
    LET x == Last(frames)
        sp == split_xpath_last(x)
    IN  /\ \/ /\ outcome' = "descending"
              /\ frames' = Append(frames, sp.prefix)
              /\ Len(sp.prefix) < Len(x)
           \/ /\ outcome' = "ascending"
              /\ is_node(tree, sp.prefix, Namespaces)
           \/ /\ outcome' = "fail"
              /\ sp.prefix = x
        /\ sp.prefix = x => outcome' = "fail"

\* What bounds the steps a request has left: a call passes a shorter prefix
\* to the next call, which leaves fewer calls than the selector of the first
\* call has tokens, and a return leaves one call less to return.
Variant ==
    IF outcome = "descending" THEN Len(frames[1]) + 2 + Len(Last(frames))
    ELSE IF outcome = "ascending" THEN Len(frames)
    ELSE 0

\* C13: ensure terminates: every step of the recursion passes a strictly
\* shorter prefix and leaves less to do, and the recursion ends at a prefix
\* that matches an element or with the error of a selector no rule matches,
\* which is how "/b" on <a/> ends, its prefix being the empty string.
C13_EnsureTerminates ==
    /\ [][Active => (~Active' \/ Variant' < Variant)]_vars
    /\ [][outcome = "descending" => DescentStep]_vars
    /\ []((req.op = "ensure" /\ req.xpath = Xb /\ ~Active) => outcome = "fail")

-----------------------------------------------------------------------------
(* The verdict and the tree *)

\* a real request of one of the four operations that make or set something
\* has returned with changed=false
Unchanging ==
    /\ req.op \in {"ensure", "set", "replace", "append"}
    /\ ~req.check_mode
    /\ Exited
    /\ ~changed

\* C14: when a real ensure, set, replace or append returns changed=false, the
\* tree (the children, text and attributes of every node) is the tree that
\* was loaded, and so is the file.
C14_UnchangedMeansSameTree ==
    Unchanging => (tree = loaded /\ file = loaded)

\* C14, the case of a value set on several elements that all hold it already
C14_SetOfHeldValue ==
    /\ Unchanging
    /\ req.op = "set"
    /\ Len(XPath(loaded, req.xpath, Namespaces).items) > 1

====
